---- MODULE Spec2Model ----
(***************************************************************************)
(* Model of the sample programs of influxdata/go-samples:                  *)
(*   - cmd/iot_app: local login table (SQLite) + session + web handlers    *)
(*   - boilerplate and sample-app: /ingest, /query, /setup handlers        *)
(* Strings that the code inspects character by character (passwords,      *)
(* stored hashes) are sequences of one-character strings; strings that the *)
(* code only copies or compares are TLA+ strings.                          *)
(***************************************************************************)
EXTENDS Integers, Sequences, FiniteSets, TLC

\* a function with domain 1..n as a sequence value
ToSeq(f) == SubSeq(f, 1, Len(f))

\* ------------------------------------------------------------------------
\* crypto/sha256 as used by tryLoginCredentials and registerUser.
\* A 32-bit word is a pair <<hi, lo>> of 16-bit halves.
\* ------------------------------------------------------------------------
TwoTo16 == 65536

Pow2(n) == 2 ^ n

\* the k-th bit of a
Bit(a, k) == (a \div Pow2(k)) % 2

\* bitwise exclusive or and bitwise and of two 4-bit numbers
Xor4(a, b) ==
  ((Bit(a, 0) + Bit(b, 0)) % 2) + 2 * ((Bit(a, 1) + Bit(b, 1)) % 2)
    + 4 * ((Bit(a, 2) + Bit(b, 2)) % 2) + 8 * ((Bit(a, 3) + Bit(b, 3)) % 2)

And4(a, b) ==
  (Bit(a, 0) * Bit(b, 0)) + 2 * (Bit(a, 1) * Bit(b, 1))
    + 4 * (Bit(a, 2) * Bit(b, 2)) + 8 * (Bit(a, 3) * Bit(b, 3))

\* the k-th hexadecimal digit of a
Nibble(a, k) == (a \div Pow2(4 * k)) % 16

\* a ^ b and a & b on 16-bit numbers
Xor16(a, b) ==
  Xor4(Nibble(a, 0), Nibble(b, 0)) + 16 * Xor4(Nibble(a, 1), Nibble(b, 1))
    + 256 * Xor4(Nibble(a, 2), Nibble(b, 2)) + 4096 * Xor4(Nibble(a, 3), Nibble(b, 3))

And16(a, b) ==
  And4(Nibble(a, 0), Nibble(b, 0)) + 16 * And4(Nibble(a, 1), Nibble(b, 1))
    + 256 * And4(Nibble(a, 2), Nibble(b, 2)) + 4096 * And4(Nibble(a, 3), Nibble(b, 3))

WXor(x, y) == << Xor16(x[1], y[1]), Xor16(x[2], y[2]) >>
WAnd(x, y) == << And16(x[1], y[1]), And16(x[2], y[2]) >>
WNot(x) == << TwoTo16 - 1 - x[1], TwoTo16 - 1 - x[2] >>

\* 32-bit addition modulo 2^32
WAdd(x, y) ==
  LET lo == x[2] + y[2]
      hi == x[1] + y[1] + (lo \div TwoTo16)
  IN  << hi % TwoTo16, lo % TwoTo16 >>

\* bits.RotateLeft32(x, -n)
Rotr(x, n) ==
  LET v == IF n >= 16 THEN << x[2], x[1] >> ELSE x
      m == n % 16
      p == Pow2(m)
      q == Pow2(16 - m)
  IN  IF m = 0 THEN v
      ELSE << (v[1] \div p) + (v[2] % p) * q, (v[2] \div p) + (v[1] % p) * q >>

\* x >> n
Shr(x, n) ==
  IF n >= 16 THEN << 0, x[1] \div Pow2(n - 16) >>
  ELSE LET p == Pow2(n)
           q == Pow2(16 - n)
       IN  << x[1] \div p, (x[2] \div p) + (x[1] % p) * q >>

\* crypto/sha256: round constants (FIPS 180-4), as <<high 16 bits, low 16 bits>>
K256 ==
  <<
    <<17034, 12184>>, <<28983, 17553>>, <<46528, 64463>>, <<59829, 56229>>,
    <<14678, 49755>>, <<23025, 4593>>, <<37439, 33444>>, <<43804, 24277>>,
    <<55303, 43672>>, <<4739, 23297>>, <<9265, 34238>>, <<21772, 32195>>,
    <<29374, 23924>>, <<32990, 45566>>, <<39900, 1703>>, <<49563, 61812>>,
    <<58523, 27073>>, <<61374, 18310>>, <<4033, 40390>>, <<9228, 41420>>,
    <<11753, 11375>>, <<19060, 33962>>, <<23728, 43484>>, <<30457, 35034>>,
    <<38974, 20818>>, <<43057, 50797>>, <<45059, 10184>>, <<48985, 32711>>,
    <<50912, 3059>>, <<54695, 37191>>, <<1738, 25425>>, <<5161, 10599>>,
    <<10167, 2693>>, <<11803, 8504>>, <<19756, 28156>>, <<21304, 3347>>,
    <<25866, 29524>>, <<30314, 2747>>, <<33218, 51502>>, <<37490, 11397>>,
    <<41663, 59553>>, <<43034, 26187>>, <<49739, 35696>>, <<51052, 20899>>,
    <<53650, 59417>>, <<54937, 1572>>, <<62478, 13701>>, <<4202, 41072>>,
    <<6564, 49430>>, <<7735, 27656>>, <<10056, 30540>>, <<13488, 48309>>,
    <<14620, 3251>>, <<20184, 43594>>, <<23452, 51791>>, <<26670, 28659>>,
    <<29839, 33518>>, <<30885, 25455>>, <<33992, 30740>>, <<36039, 520>>,
    <<37054, 65530>>, <<42064, 27883>>, <<48889, 41975>>, <<50801, 30962>> >>

\* crypto/sha256: initial hash value
Init256 ==
  <<
    <<27145, 58983>>, <<47975, 44677>>, <<15470, 62322>>, <<42319, 62778>>,
    <<20750, 21119>>, <<39685, 26764>>, <<8067, 55723>>, <<23520, 52505>> >>

SmallSigma0(x) == WXor(WXor(Rotr(x, 7), Rotr(x, 18)), Shr(x, 3))
SmallSigma1(x) == WXor(WXor(Rotr(x, 17), Rotr(x, 19)), Shr(x, 10))
BigSigma0(x) == WXor(WXor(Rotr(x, 2), Rotr(x, 13)), Rotr(x, 22))
BigSigma1(x) == WXor(WXor(Rotr(x, 6), Rotr(x, 11)), Rotr(x, 25))
Ch(e, f, g) == WXor(WAnd(e, f), WAnd(WNot(e), g))
Maj(a, b, c) == WXor(WXor(WAnd(a, b), WAnd(a, c)), WAnd(b, c))

Zeros(n) == ToSeq([i \in 1..n |-> 0])

\* digest.checkSum: append 0x80, zero padding and the 64-bit bit length
Pad256(msg) ==
  LET len == Len(msg)
      bits == 8 * len
  IN  msg \o << 128 >> \o Zeros((55 - len) % 64)
          \o << 0, 0, 0, 0, 0, (bits \div 65536) % 256, (bits \div 256) % 256, bits % 256 >>

\* the 16 big-endian words of block number b (from 0) of the padded message
BlockWords(p, b) ==
  [t \in 1..16 |->
     LET o == 64 * b + 4 * (t - 1)
     IN  << p[o + 1] * 256 + p[o + 2], p[o + 3] * 256 + p[o + 4] >>]

\* w[t] of the message schedule, from the earlier entries
ScheduleWord(w, t) ==
  WAdd(WAdd(SmallSigma1(w[t - 2]), w[t - 7]),
       WAdd(SmallSigma0(w[t - 15]), w[t - 16]))

\* the schedule w extended by the entries lo..hi
\* (for i := 16; i < 64; i++ { w[i] = ... })
RECURSIVE Schedule(_, _, _)
Schedule(w, lo, hi) ==
  IF lo = hi THEN Append(w, ScheduleWord(w, lo))
  ELSE LET mid == (lo + hi) \div 2
           half == Schedule(w, lo, mid)
       IN  IF Len(half) = mid THEN Schedule(half, mid + 1, hi) ELSE half

\* one iteration of the round loop on the working variables
\* s = <<a, b, c, d, e, f, g, h>>
Round(s, w, t) ==
  LET t1 == WAdd(WAdd(WAdd(s[8], BigSigma1(s[5])), Ch(s[5], s[6], s[7])),
                 WAdd(K256[t], w[t]))
      t2 == WAdd(BigSigma0(s[1]), Maj(s[1], s[2], s[3]))
  IN  << WAdd(t1, t2), s[1], s[2], s[3], WAdd(s[4], t1), s[5], s[6], s[7] >>

\* the rounds lo..hi applied to s (for i := 0; i < 64; i++ { ... })
RECURSIVE Rounds(_, _, _, _)
Rounds(s, w, lo, hi) ==
  IF lo = hi THEN Round(s, w, lo)
  ELSE LET mid == (lo + hi) \div 2
           half == Rounds(s, w, lo, mid)
       IN  IF Len(half) = 8 THEN Rounds(half, w, mid + 1, hi) ELSE half

\* block(): fold one 64-byte block into the running hash
Block256(h, words) ==
  LET w == Schedule(ToSeq(words), 17, 64)
      s == Rounds(h, w, 1, 64)
  IN  ToSeq([i \in 1..8 |-> WAdd(h[i], s[i])])

RECURSIVE Blocks256(_, _, _)
Blocks256(h, p, b) ==
  IF 64 * b >= Len(p) THEN h
  ELSE Blocks256(Block256(h, BlockWords(p, b)), p, b + 1)

\* hasher.Write(msg); hasher.Sum(nil): the 32 digest bytes
Sha256Sum(msg) ==
  LET h == Blocks256(Init256, Pad256(msg), 0)
  IN  ToSeq([i \in 1..32 |->
         LET w == h[(i - 1) \div 4 + 1]
             k == (i - 1) % 4
         IN  IF k = 0 THEN w[1] \div 256
             ELSE IF k = 1 THEN w[1] % 256
             ELSE IF k = 2 THEN w[2] \div 256
             ELSE w[2] % 256])

\* ------------------------------------------------------------------------
\* encoding/hex
\* ------------------------------------------------------------------------
hextable == << "0", "1", "2", "3", "4", "5", "6", "7",
               "8", "9", "a", "b", "c", "d", "e", "f" >>

\* hex.EncodeToString
EncodeToString(bytes) ==
  ToSeq([i \in 1..(2 * Len(bytes)) |->
           LET b == bytes[(i + 1) \div 2]
           IN  IF i % 2 = 1 THEN hextable[(b \div 16) + 1] ELSE hextable[(b % 16) + 1]])

\* hex.reverseHexTable: the value of every hex digit, lower or upper case
reverseHexTable ==
  ("0" :> 0) @@ ("1" :> 1) @@ ("2" :> 2) @@ ("3" :> 3) @@ ("4" :> 4) @@ ("5" :> 5)
    @@ ("6" :> 6) @@ ("7" :> 7) @@ ("8" :> 8) @@ ("9" :> 9)
    @@ ("a" :> 10) @@ ("b" :> 11) @@ ("c" :> 12) @@ ("d" :> 13) @@ ("e" :> 14)
    @@ ("f" :> 15)
    @@ ("A" :> 10) @@ ("B" :> 11) @@ ("C" :> 12) @@ ("D" :> 13) @@ ("E" :> 14)
    @@ ("F" :> 15)

\* the value of a hex digit, -1 if the character is none
fromHexChar(c) == IF c \in DOMAIN reverseHexTable THEN reverseHexTable[c] ELSE -1

\* hex.DecodeString: [ok, bytes]; fails on odd length or a non-hex character
DecodeString(s) ==
  IF Len(s) % 2 = 1 \/ \E i \in 1..Len(s) : fromHexChar(s[i]) = -1
  THEN [ok |-> FALSE, bytes |-> << >>]
  ELSE [ok |-> TRUE,
        bytes |-> ToSeq([i \in 1..(Len(s) \div 2) |->
                           16 * fromHexChar(s[2 * i - 1]) + fromHexChar(s[2 * i])])]

\* ------------------------------------------------------------------------
\* strings
\* ------------------------------------------------------------------------
\* []byte(s) for the characters that occur in the modelled passwords
ByteOf == ("a" :> 97) @@ ("p" :> 112) @@ ("s" :> 115) @@ ("w" :> 119)

Bytes(s) == ToSeq([i \in 1..Len(s) |-> ByteOf[s[i]]])

\* variant of TrimPrefix: the prefix is left in place
TrimPrefix_keep(s, prefix) == s

\* strings.TrimPrefix
TrimPrefix(s, prefix) ==
  IF Len(s) >= Len(prefix) /\ SubSeq(s, 1, Len(prefix)) = prefix
  THEN SubSeq(s, Len(prefix) + 1, Len(s))
  ELSE s

\* ------------------------------------------------------------------------
\* bounds and input sets
\* ------------------------------------------------------------------------
\* rand.Int() draws the row id from 1..MaxId
MaxId == 3
\* longest result iterator that is explored
MaxRecords == 2

Emails == { "mickey@example.com", "ann@example.com" }
Names == { "ann" }
Passwords == { << "p", "a", "s", "s" >>, << "p", "w" >> }
ReadTokens == { "r1", "r2" }
WriteTokens == { "w1", "w2" }
Methods == { "GET", "POST", "PUT" }
\* failures of the database/sql calls of tryLoginCredentials and registerUser
DbFaults == { "none", "query", "scan", "exec" }

\* ------------------------------------------------------------------------
\* cmd/iot_app: state
\* ------------------------------------------------------------------------
VARIABLES
  digests,      \* crypto/sha256 on the explored passwords: a table fixed by Init
  users,        \* the rows of table user in logins.db
  activeUser,   \* var activeUser User
  readClient,   \* var readClient influxdb2.Client
  writeClient,  \* var writeClient influxdb2.Client
  req,          \* the request served last
  resp,         \* the response to it
  lastErr,      \* what tryLoginCredentials / registerUser returned while serving it
  calls,        \* the client library calls made while serving it
  registered,   \* history: the arguments of every registerUser call that returned nil
  switched,     \* history: the last successful login took the place of another active user
  bucket,       \* the points held by the InfluxDB bucket named bucketName
  tasks,        \* the tasks installed in InfluxDB
  pc            \* where each running goroutine or program stands in its code

vars == << digests, users, activeUser, readClient, writeClient, req, resp, lastErr, calls,
           registered, switched, bucket, tasks, pc >>

session == << activeUser, readClient, writeClient >>

\* hasher.Write([]byte(plainPassword)); hash := hasher.Sum(nil)
Sum256(plainPassword) == digests[plainPassword]

\* the table of Sum256
Sha256Table == [p \in Passwords |-> Sha256Sum(Bytes(p))]

\* os.Getenv("INFLUXDB_HOST") as normalised by main
hostUrl == "https://influx.example.com/"
\* var queryJson string: never assigned
queryJson == ""

\* the zero value of User
ZeroUser ==
  [valid |-> FALSE, name |-> "", email |-> "", readToken |-> "", writeToken |-> ""]

\* the nil influxdb2.Client
NilClient == [set |-> FALSE, serverURL |-> "", token |-> ""]

\* influxdb2.NewClient
NewClient(serverURL, token) == [set |-> TRUE, serverURL |-> serverURL, token |-> token]

sha256Prefix == << "s", "h", "a", "2", "5", "6", "$" >>

\* the row inserted by getLoginDB into a new database
DefaultRow ==
  [id |-> 1,
   email |-> "mickey@example.com",
   password |-> sha256Prefix \o
     << "d", "7", "4", "f", "f", "0", "e", "e", "8", "d", "a", "3", "b", "9", "8", "0",
        "6", "b", "1", "8", "c", "8", "7", "7", "d", "b", "f", "2", "9", "b", "b", "d",
        "e", "5", "0", "b", "5", "b", "d", "8", "e", "4", "d", "a", "d", "7", "a", "3",
        "a", "7", "2", "5", "0", "0", "0", "f", "e", "b", "8", "2", "e", "8", "f", "1" >>,
   name |-> "mickey",
   readToken |-> "my_read_token",
   writeToken |-> "my_write_token"]

\* ------------------------------------------------------------------------
\* net/http response writer
\* ------------------------------------------------------------------------
\* status 0: WriteHeader has not been called yet
NewResponse == [status |-> 0, location |-> "", body |-> << >>, panicked |-> FALSE]

\* w.WriteHeader: only the first call takes effect
WriteHeader(w, code) == IF w.status = 0 THEN [w EXCEPT !.status = code] ELSE w

\* w.Write: writes the 200 header first if none was written
Write(w, piece) ==
  [w EXCEPT !.status = IF w.status = 0 THEN 200 ELSE w.status,
            !.body = Append(w.body, piece)]

\* http.Redirect: Location header, status, and a link body on GET
Redirect(w, method, url, code) ==
  LET h == WriteHeader([w EXCEPT !.location = url], code)
  IN  IF method = "GET" THEN Write(h, << "link", url >>) ELSE h

\* http.Error
HttpError(w, text, code) == Write(WriteHeader(w, code), << "text", text >>)

\* the handler returned: the server sends the 200 header if none was written
Finish(w) == WriteHeader(w, 200)

\* the handler panicked: the server recovers and drops the connection
Panicked(w) == [w EXCEPT !.panicked = TRUE]

\* renderTemplate
renderTemplate(w, tmpl, data) == Write(w, << "template", tmpl, data >>)

\* ------------------------------------------------------------------------
\* cmd/iot_app: login table
\* ------------------------------------------------------------------------
NoForm == [email |-> "", password |-> << >>, fault |-> "none"]

Request(route, method, form) ==
  [route |-> route, method |-> method, email |-> form.email,
   password |-> form.password, fault |-> form.fault]

\* getLoginDB on a missing logins.db, then main
Init ==
  /\ digests = Sha256Table
  /\ users = { DefaultRow }
  /\ activeUser = ZeroUser
  /\ readClient = NilClient
  /\ writeClient = NilClient
  /\ req = Request("", "", NoForm)
  /\ resp = NewResponse
  /\ lastErr = ""
  /\ calls = << >>
  /\ registered = {}
  /\ switched = FALSE
  /\ bucket = {}
  /\ tasks = {}
  /\ pc = << >>

\* variant of CheckRow: the digest comparison is left out
CheckRow_nocompare(row, plainPassword, fault) ==
  IF fault = "scan" THEN "result scan failed"
  ELSE LET decoded == DecodeString(TrimPrefix(row.password, sha256Prefix))
       IN  IF ~decoded.ok THEN "failed to decode password hash" ELSE "nil"

\* the body of the loop over the SELECT result, for the row it yields first:
\* "nil" or the error returned
CheckRow(row, plainPassword, fault) ==
  IF fault = "scan" THEN "result scan failed"
  ELSE LET hash == Sum256(plainPassword)
           decoded == DecodeString(TrimPrefix(row.password, sha256Prefix))
       IN  IF ~decoded.ok THEN "failed to decode password hash"
           ELSE IF hash # decoded.bytes THEN "incorrect password"
           ELSE "nil"

\* variant of SetSession: the write client is not rebuilt
SetSession_stale(row) ==
  /\ activeUser' = [valid |-> TRUE, name |-> row.name, email |-> row.email,
                    readToken |-> row.readToken, writeToken |-> row.writeToken]
  /\ readClient' = NewClient(hostUrl, row.readToken)
  /\ writeClient' = writeClient
  /\ switched' = (activeUser.valid /\ activeUser.email # row.email)

\* the assignments of a successful login
SetSession(row) ==
  /\ activeUser' = [valid |-> TRUE, name |-> row.name, email |-> row.email,
                    readToken |-> row.readToken, writeToken |-> row.writeToken]
  /\ readClient' = NewClient(hostUrl, row.readToken)
  /\ writeClient' = NewClient(hostUrl, row.writeToken)
  /\ switched' = (activeUser.valid /\ activeUser.email # row.email)

\* variant of tryLoginCredentials: activeUser is cleared before the password of
\* the row is verified
tryLoginCredentials_clear(user, plainPassword, fault) ==
  LET rows == { r \in users : r.email = user }
  IN  IF fault = "query" \/ rows = {}
      THEN lastErr' = "failed to send query" /\ UNCHANGED << session, switched >>
      ELSE \E row \in rows :
             LET e == CheckRow(row, plainPassword, fault)
             IN  /\ lastErr' = e
                 /\ IF e = "nil" THEN SetSession(row)
                    ELSE /\ activeUser' = ZeroUser
                         /\ UNCHANGED << readClient, writeClient, switched >>

\* tryLoginCredentials(db, user, plainPassword); lastErr' is its result
tryLoginCredentials(user, plainPassword, fault) ==
  LET rows == { r \in users : r.email = user }
  IN  IF fault = "query"
      THEN lastErr' = "failed to send query" /\ UNCHANGED << session, switched >>
      ELSE IF rows = {}
      THEN lastErr' = "failed to find any matching user account emails"
           /\ UNCHANGED << session, switched >>
      ELSE \E row \in rows :
             LET e == CheckRow(row, plainPassword, fault)
             IN  /\ lastErr' = e
                 /\ IF e = "nil" THEN SetSession(row)
                    ELSE UNCHANGED << session, switched >>

\* variant of PasswordHash: the password itself is hex-encoded, not its digest
PasswordHash_plain(password) == sha256Prefix \o EncodeToString(Bytes(password))

\* the password column written by registerUser
PasswordHash(password) == sha256Prefix \o EncodeToString(Sum256(password))

\* the INSERT of registerUser: fails on a taken id (PRIMARY KEY) or email (UNIQUE)
InsertFails_noemail(id, email, fault) ==
  \/ fault = "exec"
  \/ \E r \in users : r.id = id

InsertFails(id, email, fault) ==
  \/ fault = "exec"
  \/ \E r \in users : r.id = id \/ r.email = email

\* registerUser(db, email, name, password, readToken, writeToken) with
\* rand.Int() = id; lastErr' is its result
registerUser(id, email, name, password, readToken, writeToken, fault) ==
  IF InsertFails(id, email, fault)
  THEN lastErr' = "insert failed" /\ UNCHANGED << users, registered >>
  ELSE /\ lastErr' = "nil"
       /\ users' = users \cup
            { [id |-> id, email |-> email, password |-> PasswordHash(password),
               name |-> name, readToken |-> readToken, writeToken |-> writeToken] }
       /\ registered' = registered \cup
            { [email |-> email, name |-> name, password |-> password,
               readToken |-> readToken, writeToken |-> writeToken] }

\* ------------------------------------------------------------------------
\* cmd/iot_app: handlers
\* ------------------------------------------------------------------------
\* indexHandler
Index ==
  \E method \in { "GET" } :
    /\ UNCHANGED << digests, bucket, tasks, pc >>
    /\ req' = Request("/", method, NoForm)
    /\ resp' = Finish(renderTemplate(NewResponse, "index", ""))
    /\ lastErr' = ""
    /\ calls' = << >>
    /\ UNCHANGED << users, session, registered, switched >>

\* loginHandler, case "GET"
LoginGet ==
  /\ UNCHANGED << digests, bucket, tasks, pc >>
  /\ req' = Request("/login", "GET", NoForm)
  /\ resp' = Finish(renderTemplate(NewResponse, "login", ""))
  /\ lastErr' = ""
  /\ calls' = << >>
  /\ UNCHANGED << users, session, registered, switched >>

\* loginHandler, case "POST"
LoginPost ==
  \E email \in Emails, password \in Passwords, fault \in DbFaults \ { "exec" } :
    /\ UNCHANGED << digests, bucket, tasks, pc >>
    /\ req' = Request("/login", "POST",
                      [email |-> email, password |-> password, fault |-> fault])
    /\ tryLoginCredentials(email, password, fault)
    /\ resp' = IF lastErr' = "nil"
               THEN Finish(Redirect(NewResponse, "POST", "profile", 303))
               ELSE Finish(HttpError(NewResponse, "Invalid login", 403))
    /\ calls' = << >>
    /\ UNCHANGED << users, registered >>

\* loginHandler, default
LoginOther ==
  /\ UNCHANGED << digests, bucket, tasks, pc >>
  /\ req' = Request("/login", "PUT", NoForm)
  /\ resp' = Finish(WriteHeader(NewResponse, 405))
  /\ lastErr' = ""
  /\ calls' = << >>
  /\ UNCHANGED << users, session, registered, switched >>

\* profileHandler
Profile ==
  \E method \in Methods :
    /\ UNCHANGED << digests, bucket, tasks, pc >>
    /\ req' = Request("/profile", method, NoForm)
    /\ LET w == IF ~activeUser.valid
                THEN Redirect(NewResponse, method, "login", 303)
                ELSE NewResponse
       IN  resp' = Finish(renderTemplate(w, "profile", activeUser.name))
    /\ lastErr' = ""
    /\ calls' = << >>
    /\ UNCHANGED << users, session, registered, switched >>

\* signupHandler, case "GET"
SignupGet ==
  /\ UNCHANGED << digests, bucket, tasks, pc >>
  /\ req' = Request("/signup", "GET", NoForm)
  /\ resp' = Finish(renderTemplate(NewResponse, "signup", ""))
  /\ lastErr' = ""
  /\ calls' = << >>
  /\ UNCHANGED << users, session, registered, switched >>

\* signupHandler, case "POST"
SignupPost ==
  \E id \in 1..MaxId, email \in Emails, fault \in { "none", "exec" } :
    /\ UNCHANGED << digests, bucket, tasks, pc >>
    /\ req' = Request("/signup", "POST",
                      [email |-> email, password |-> << >>, fault |-> fault])
    /\ \E name \in IF InsertFails(id, email, fault) THEN { "ann" } ELSE Names,
          password \in IF InsertFails(id, email, fault)
                       THEN { << "p", "w" >> } ELSE Passwords,
          readToken \in IF InsertFails(id, email, fault) THEN { "r1" } ELSE ReadTokens,
          writeToken \in IF InsertFails(id, email, fault) THEN { "w1" } ELSE WriteTokens :
         registerUser(id, email, name, password, readToken, writeToken, fault)
    /\ resp' = IF lastErr' # "nil"
               THEN Finish(HttpError(NewResponse, "Failed to register user.", 400))
               ELSE Finish(Redirect(NewResponse, "POST", "login", 303))
    /\ calls' = << >>
    /\ UNCHANGED << session, switched >>

\* signupHandler, default
SignupOther ==
  /\ UNCHANGED << digests, bucket, tasks, pc >>
  /\ req' = Request("/signup", "PUT", NoForm)
  /\ resp' = Finish(WriteHeader(NewResponse, 405))
  /\ lastErr' = ""
  /\ calls' = << >>
  /\ UNCHANGED << users, session, registered, switched >>

\* ------------------------------------------------------------------------
\* cmd/iot_app: query and write
\* ------------------------------------------------------------------------
\* data.Record().String() split at "," and each piece split at ":"; the
\* query from |> range gives every record a _value: a number, or the text of
\* a string field, which may be empty
RecordSamples ==
  { << << "_field", "field1" >>, << "_value", "1" >> >>,
    << << "_value", "2" >>, << "tagname1", "tagvalue1" >> >>,
    << << "_field", "field2" >>, << "_value", "" >> >> }

\* strconv.ParseFloat on the explored value strings; 0 on a parse error
FloatOf == ("1" :> 1) @@ ("2" :> 2)
ParseFloat(str) == IF str \in DOMAIN FloatOf THEN FloatOf[str] ELSE 0

\* a result iterator: its records, each with what TableChanged reports for it
\* (the first record of a result always starts a table), and its final Err()
RECURSIVE RecordSeqs(_)
RecordSeqs(n) ==
  IF n = 0 THEN { << >> }
  ELSE LET shorter == RecordSeqs(n - 1)
       IN  shorter \cup
           { Append(rs, [changed |-> c, pairs |-> p]) :
               rs \in { r \in shorter : Len(r) = n - 1 },
               c \in IF n = 1 THEN { TRUE } ELSE BOOLEAN,
               p \in RecordSamples }

Iterators == RecordSeqs(MaxRecords)

\* errors of the client library: *http.Error with a status code, or another error
LibErrors ==
  { [isHttp |-> TRUE, StatusCode |-> c] : c \in { 401, 404, 429 } }
    \cup { [isHttp |-> FALSE, StatusCode |-> 0] }

\* the inner loop over pairs: the value of the last "_value" pair, "" if none,
\* "panic" when such a pair has nothing after it (kv[1] out of range)
RECURSIVE ValueString(_, _, _)
ValueString(pairs, i, found) ==
  IF i > Len(pairs) THEN found
  ELSE LET kv == pairs[i]
       IN  IF kv[1] # "_value" THEN ValueString(pairs, i + 1, found)
           ELSE IF Len(kv) < 2 THEN "panic"
           ELSE ValueString(pairs, i + 1, kv[2])

\* the loop of queryDataHandler from record i on; g is graphData[0]
RECURSIVE GraphLoop(_, _, _, _)
GraphLoop(records, i, firstTable, g) ==
  IF i > Len(records) THEN g
  ELSE IF records[i].changed /\ ~firstTable THEN g
  ELSE LET valueString == ValueString(records[i].pairs, 1, "")
       IN  IF valueString = "panic" THEN [g EXCEPT !.panicked = TRUE]
           ELSE IF valueString = "" THEN g
           ELSE GraphLoop(records, i + 1, FALSE,
                          [g EXCEPT !.X = Append(g.X, Len(g.X)),
                                    !.Y = Append(g.Y, ParseFloat(valueString))])

\* queryDataHandler
GraphQueryData ==
  \E method \in { "GET" } :
    /\ UNCHANGED << digests, bucket, tasks, pc >>
    /\ req' = Request("/graph_query_data", method, NoForm)
    /\ lastErr' = ""
    /\ IF ~readClient.set
       THEN \* cl.QueryAPI on a nil interface value
            /\ calls' = << [api |-> "QueryAPI", client |-> readClient] >>
            /\ resp' = Panicked(NewResponse)
       ELSE \/ \E e \in LibErrors :
                 /\ calls' = << [api |-> "QueryWithParams", client |-> readClient,
                                 records |-> << >>] >>
                 /\ resp' = Finish(Write(WriteHeader(NewResponse, 500),
                                         << "text", "failed to run db query" >>))
            \/ \E records \in Iterators :
                 LET g == GraphLoop(records, 1, TRUE,
                                    [X |-> << >>, Y |-> << >>, panicked |-> FALSE])
                 IN  /\ calls' = << [api |-> "QueryWithParams", client |-> readClient,
                                     records |-> records] >>
                     /\ resp' = IF g.panicked THEN Panicked(NewResponse)
                                ELSE Finish(Write(NewResponse, << "json", g.X, g.Y >>))
    /\ UNCHANGED << users, session, registered, switched >>

\* writeDataHandler
GraphWriteData ==
  \E method \in { "GET" } :
    /\ UNCHANGED << digests, bucket, tasks, pc >>
    /\ req' = Request("/graph_write_data", method, NoForm)
    /\ lastErr' = ""
    /\ IF ~writeClient.set
       THEN \* cl.WriteAPIBlocking on a nil interface value
            /\ calls' = << [api |-> "WriteAPIBlocking", client |-> writeClient] >>
            /\ resp' = Panicked(NewResponse)
       ELSE /\ calls' = << [api |-> "WritePoint", client |-> writeClient] >>
            /\ \/ \E e \in LibErrors :
                    resp' = Finish(Write(WriteHeader(NewResponse, 500),
                                         << "text", "failed to run db write" >>))
               \/ resp' = Finish(NewResponse)
    /\ UNCHANGED << users, session, registered, switched >>

\* the requests served by cmd/iot_app (setupWebHandlers)
Next ==
  \/ Index
  \/ LoginGet
  \/ LoginPost
  \/ LoginOther
  \/ Profile
  \/ GraphQueryData
  \/ GraphWriteData
  \/ SignupGet
  \/ SignupPost
  \/ SignupOther

Spec == Init /\ [][Next]_vars

\* ------------------------------------------------------------------------
\* boilerplate application and sample-app: /ingest, /query, /setup
\* ------------------------------------------------------------------------
\* os.Getenv("INFLUXDB_BUCKET")
bucketName == "bucket1"
\* *org.Id as looked up by main
organizationID == "0000000000000001"

UserIDs == { "", "user1", "user2" }
Measurements == { "measurement1", "downsampled" }
FieldValues == { 0, 1 }

\* a request body that json.Decode rejects
BadBody == [ok |-> FALSE, user_id |-> "", measurement |-> "", field1 |-> 0]

\* what json.Decode leaves in the request struct of ingest
IngestBodies ==
  { [ok |-> TRUE, user_id |-> u, measurement |-> m, field1 |-> f] :
      u \in UserIDs, m \in Measurements, f \in FieldValues }

\* what json.Decode leaves in the request struct of query and setup
UserBodies ==
  { [ok |-> TRUE, user_id |-> u, measurement |-> "", field1 |-> 0] : u \in UserIDs }

\* the records of a query result: tables.Record().String() and what
\* tables.TableChanged() reports (the first record always starts a table)
RECURSIVE TableSeqs(_)
TableSeqs(n) ==
  IF n = 0 THEN { << >> }
  ELSE LET shorter == TableSeqs(n - 1)
       IN  shorter \cup
           { Append(rs, [changed |-> c, record |-> r]) :
               rs \in { x \in shorter : Len(x) = n - 1 },
               c \in IF n = 1 THEN { TRUE } ELSE BOOLEAN,
               r \in { "rec1", "rec2" } }

NoError == [isNil |-> TRUE, isHttp |-> FALSE, StatusCode |-> 0]
LibError(e) == [isNil |-> FALSE, isHttp |-> e.isHttp, StatusCode |-> e.StatusCode]
Outcomes == { NoError } \cup { LibError(e) : e \in LibErrors }

\* a QueryTableResult: the records Next() yields and the error Err() reports
\* once Next() has returned false
QueryResults ==
  { [records |-> rs, err |-> e] : rs \in TableSeqs(MaxRecords), e \in Outcomes }

\* influxdb2.NewPoint(measurement, tags, fields, time.Now())
NewPoint(measurement, tags, fields) ==
  [measurement |-> measurement, tags |-> tags, fields |-> fields]

\* variant of handleError: the status code of the library error is ignored
handleError_always500(w, err) == WriteHeader(w, 500)

\* handleError
handleError(w, err) ==
  IF err.isHttp THEN WriteHeader(w, err.StatusCode) ELSE WriteHeader(w, 500)

\* Go's %q verb
Quote(str) == << "\"", str, "\"" >>

\* welcome
Welcome ==
  /\ UNCHANGED << digests, bucket, tasks, pc >>
  /\ req' = [route |-> "/", body |-> BadBody]
  /\ resp' = Finish(Write(NewResponse, << "text", "welcome" >>))
  /\ calls' = << >>
  /\ UNCHANGED << users, session, lastErr, registered, switched >>

\* variant of IngestPoint: the user id is written as a field, not as a tag
IngestPoint_field(body) ==
  NewPoint(body.measurement,
           {},
           { << "user_id", body.user_id >>, << "field1", body.field1 >> })

\* the point that ingest constructs from the decoded request
IngestPoint(body) ==
  NewPoint(body.measurement,
           { << "user_id", body.user_id >> },
           { << "field1", body.field1 >> })

\* ingest (boilerplate): the outcome of writeAPI.WritePoint is err
ingest(body, err) ==
  /\ req' = [route |-> "/ingest", body |-> body]
  /\ IF ~body.ok
     THEN /\ calls' = << >>
          /\ resp' = Finish(WriteHeader(NewResponse, 400))
     ELSE /\ calls' = << [api |-> "WriteAPIBlocking.WritePoint",
                          point |-> IngestPoint(body),
                          err |-> err] >>
          /\ resp' = IF ~err.isNil
                     THEN Finish(handleError(NewResponse, err))
                     ELSE Finish(NewResponse)

\* /ingest served with any body and any outcome of the write
Ingest ==
  \E body \in IngestBodies \cup { BadBody }, err \in Outcomes :
    /\ ingest(body, err)
    /\ UNCHANGED << digests, bucket, tasks, pc >>
    /\ UNCHANGED << users, session, lastErr, registered, switched >>

\* the loop of query over the result; acc = [tables, current, hasCurrent, panicked]
RECURSIVE GatherTables(_, _, _)
GatherTables(records, i, acc) ==
  IF i > Len(records) THEN acc
  ELSE LET flushed == IF records[i].changed /\ acc.hasCurrent
                      THEN Append(acc.tables, acc.current) ELSE acc.tables
           current == IF records[i].changed THEN << >> ELSE acc.current
       IN  IF ~records[i].changed /\ ~acc.hasCurrent
           THEN [acc EXCEPT !.panicked = TRUE]
           ELSE GatherTables(records, i + 1,
                  [tables |-> flushed, current |-> Append(current, records[i].record),
                   hasCurrent |-> TRUE, panicked |-> FALSE])

\* variant of ResponseTables: the table being filled when the loop ends is dropped
ResponseTables_noflush(records) ==
  GatherTables(records, 1,
    [tables |-> << >>, current |-> << >>, hasCurrent |-> FALSE, panicked |-> FALSE])

\* response.Tables as marshalled by query
ResponseTables(records) ==
  LET acc == GatherTables(records, 1,
               [tables |-> << >>, current |-> << >>, hasCurrent |-> FALSE,
                panicked |-> FALSE])
  IN  [acc EXCEPT !.tables = IF acc.hasCurrent /\ ~acc.panicked
                             THEN Append(acc.tables, acc.current) ELSE acc.tables]

\* query (boilerplate): QueryWithParams returns (result, err)
query(body, err, result) ==
  /\ req' = [route |-> "/query", body |-> body]
  /\ IF ~body.ok
     THEN /\ calls' = << >>
          /\ resp' = Finish(WriteHeader(NewResponse, 400))
     ELSE IF ~err.isNil
     THEN /\ calls' = << [api |-> "QueryWithParams",
                          params |-> [bucket_name |-> bucketName,
                                      user_id |-> body.user_id],
                          records |-> << >>,
                          err |-> err, iterErr |-> NoError] >>
          /\ resp' = Finish(handleError(NewResponse, err))
     ELSE /\ calls' = << [api |-> "QueryWithParams",
                          params |-> [bucket_name |-> bucketName,
                                      user_id |-> body.user_id],
                          records |-> result.records,
                          err |-> err, iterErr |-> result.err] >>
          /\ LET r == ResponseTables(result.records)
             IN  resp' = IF r.panicked THEN Panicked(NewResponse)
                         ELSE Finish(Write(NewResponse, << "json", r.tables >>))

\* /query served with any body and any result of the query
Query ==
  \E body \in UserBodies \cup { BadBody }, err \in Outcomes, result \in QueryResults :
    /\ query(body, err, result)
    /\ UNCHANGED << digests, bucket, tasks, pc >>
    /\ UNCHANGED << users, session, lastErr, registered, switched >>

\* variant of TaskName: one name for the tasks of all users
TaskName_shared(user_id) == << "", "_task" >>

\* fmt.Sprintf("%s_task", request.UserID)
TaskName(user_id) == << user_id, "_task" >>

\* taskQuery: the three %q arguments of the script, which reads from(bucket: ..),
\* keeps r.user_id == .. and r._measurement != "downsampled", and writes the
\* union of max, min and mean as measurement "downsampled" to(bucket: ..)
TaskQuery(user_id) ==
  [from |-> Quote(bucketName), user_id |-> Quote(user_id), to |-> Quote(bucketName)]

\* variant of setup: the 400 header is written but the handler does not return
setup_noreturn(body, err) ==
  /\ req' = [route |-> "/setup", body |-> body]
  /\ calls' = << [api |-> "CreateTaskWithEvery",
                  name |-> TaskName(body.user_id),
                  flux |-> TaskQuery(body.user_id),
                  every |-> "5m",
                  orgID |-> organizationID,
                  err |-> err] >>
  /\ LET w == IF body.ok THEN NewResponse ELSE WriteHeader(NewResponse, 400)
     IN  resp' = IF ~err.isNil THEN Finish(handleError(w, err)) ELSE Finish(w)

\* setup (boilerplate): the outcome of CreateTaskWithEvery is err
setup(body, err) ==
  /\ req' = [route |-> "/setup", body |-> body]
  /\ IF ~body.ok
     THEN /\ calls' = << >>
          /\ resp' = Finish(WriteHeader(NewResponse, 400))
     ELSE /\ calls' = << [api |-> "CreateTaskWithEvery",
                          name |-> TaskName(body.user_id),
                          flux |-> TaskQuery(body.user_id),
                          every |-> "5m",
                          orgID |-> organizationID,
                          err |-> err] >>
          /\ resp' = IF ~err.isNil
                     THEN Finish(handleError(NewResponse, err))
                     ELSE Finish(NewResponse)

\* /setup served with any body and any outcome of the call
Setup ==
  \E body \in UserBodies \cup { BadBody }, err \in Outcomes :
    /\ setup(body, err)
    /\ UNCHANGED << digests, bucket, tasks, pc >>
    /\ UNCHANGED << users, session, lastErr, registered, switched >>

\* ingest (sample-app): the error handling is written out in the handler
SampleIngest ==
  \E body \in IngestBodies \cup { BadBody }, err \in Outcomes :
    /\ UNCHANGED << digests, bucket, tasks, pc >>
    /\ req' = [route |-> "sample-app/ingest", body |-> body]
    /\ IF ~body.ok
       THEN /\ calls' = << >>
            /\ resp' = Finish(WriteHeader(NewResponse, 400))
       ELSE /\ calls' = << [api |-> "WriteAPIBlocking.WritePoint",
                            point |-> NewPoint(body.measurement,
                                               { << "user_id", body.user_id >> },
                                               { << "field1", body.field1 >> }),
                            err |-> err] >>
            /\ resp' = IF err.isNil THEN Finish(NewResponse)
                       ELSE IF err.isHttp
                       THEN Finish(WriteHeader(NewResponse, err.StatusCode))
                       ELSE Finish(WriteHeader(NewResponse, 500))
    /\ UNCHANGED << users, session, lastErr, registered, switched >>

\* welcome (sample-app)
SampleWelcome ==
  /\ req' = [route |-> "sample-app/", body |-> BadBody]
  /\ resp' = Finish(Write(NewResponse, << "text", "welcome" >>))
  /\ calls' = << >>
  /\ UNCHANGED << digests, bucket, tasks, pc >>
  /\ UNCHANGED << users, session, lastErr, registered, switched >>

\* variant of NotImplemented: the handler answers 501 and returns
NotImplemented_status(w) == Finish(WriteHeader(w, 501))

\* panic("not implemented")
NotImplemented(w) == Panicked(w)

\* visualize (sample-app)
SampleVisualize ==
  /\ req' = [route |-> "sample-app/visualize", body |-> BadBody]
  /\ resp' = NotImplemented(NewResponse)
  /\ calls' = << >>
  /\ UNCHANGED << digests, bucket, tasks, pc >>
  /\ UNCHANGED << users, session, lastErr, registered, switched >>

\* tasks (sample-app): the body is not read
SampleTasks ==
  \E body \in UserBodies \cup { BadBody } :
    /\ req' = [route |-> "sample-app/tasks", body |-> body]
    /\ resp' = NotImplemented(NewResponse)
    /\ calls' = << >>
    /\ UNCHANGED << digests, bucket, tasks, pc >>
    /\ UNCHANGED << users, session, lastErr, registered, switched >>

\* monitor (sample-app)
SampleMonitor ==
  /\ req' = [route |-> "sample-app/monitor", body |-> BadBody]
  /\ resp' = NotImplemented(NewResponse)
  /\ calls' = << >>
  /\ UNCHANGED << digests, bucket, tasks, pc >>
  /\ UNCHANGED << users, session, lastErr, registered, switched >>

\* init and main of the boilerplate application
InitSamples ==
  /\ digests = << >>
  /\ users = {}
  /\ activeUser = ZeroUser
  /\ readClient = NilClient
  /\ writeClient = NilClient
  /\ req = [route |-> "", body |-> BadBody]
  /\ resp = NewResponse
  /\ lastErr = ""
  /\ calls = << >>
  /\ registered = {}
  /\ switched = FALSE
  /\ bucket = {}
  /\ tasks = {}
  /\ pc = << >>

\* the requests served by the boilerplate application and by sample-app
NextSamples ==
  \/ Welcome
  \/ Ingest
  \/ Query
  \/ Setup
  \/ SampleIngest
  \/ SampleWelcome
  \/ SampleVisualize
  \/ SampleTasks
  \/ SampleMonitor

SpecSamples == InitSamples /\ [][NextSamples]_vars

\* ------------------------------------------------------------------------
\* boilerplate application together with the bucket and the tasks of InfluxDB
\* ------------------------------------------------------------------------
FlowUsers == { "user1", "user2" }
FlowValues == { 1 }

FlowIngestBodies ==
  { [ok |-> TRUE, user_id |-> u, measurement |-> m, field1 |-> f] :
      u \in FlowUsers, m \in Measurements, f \in FlowValues }

FlowUserBodies ==
  { [ok |-> TRUE, user_id |-> u, measurement |-> "", field1 |-> 0] : u \in FlowUsers }

\* the names of the fields of a point
FieldNames(point) == { f[1] : f \in point.fields }

\* the Flux query of query: from(bucket) |> filter(_measurement == "downsampled")
\* |> filter(user_id == params.user_id): the points it keeps
QueryMatches(b, user_id) ==
  { p \in b : p.measurement = "downsampled" /\ << "user_id", user_id >> \in p.tags }

\* the order in which the tables of group(columns: ["_field"]) are yielded
FluxFields == << "field1", "field1_max", "field1_mean", "field1_min" >>

\* |> group(columns: ["_field"]) |> last(): one table of one row per field;
\* last[f] is the point that holds the latest value of field f
RECURSIVE GroupRows(_, _)
GroupRows(last, i) ==
  IF i > Len(FluxFields) THEN << >>
  ELSE IF FluxFields[i] \in DOMAIN last
       THEN << [changed |-> TRUE,
                record |-> [point |-> last[FluxFields[i]], field |-> FluxFields[i]]] >>
              \o GroupRows(last, i + 1)
       ELSE GroupRows(last, i + 1)

\* the results the query can have on bucket contents b (write times are not
\* modelled: any point holding a field may hold its latest value)
QueryRows(b, user_id) ==
  LET matches == QueryMatches(b, user_id)
      present == UNION { FieldNames(p) : p \in matches }
  IN  { GroupRows(last, 1) :
          last \in { l \in [present -> matches] :
                       \A f \in present : f \in FieldNames(l[f]) } }

\* Flux reads the string literal that %q wrote
Unquote(q) == q[2]

\* the data a task reads: from(bucket) |> filter(user_id == ..)
\* |> filter(_measurement != "downsampled")
TaskData(b, user_id) ==
  { p \in b : << "user_id", user_id >> \in p.tags /\ p.measurement # "downsampled" }

Max(vals) == CHOOSE v \in vals : \A w \in vals : w <= v
Min(vals) == CHOOSE v \in vals : \A w \in vals : v <= w

\* the mean of raw values that are all equal (FlowValues holds one value)
Mean(vals) == CHOOSE v \in vals : \A w \in vals : w = v

\* what the task writes: union of max, min and mean, their fields renamed,
\* |> map(_measurement: "downsampled") |> to(bucket)
TaskPoint(data, user_id) ==
  LET vals == { f[2] : f \in UNION { p.fields : p \in data } }
  IN  NewPoint("downsampled",
               { << "user_id", user_id >> },
               { << "field1_max", Max(vals) >>, << "field1_min", Min(vals) >>,
                 << "field1_mean", Mean(vals) >> })

\* /ingest, the written point reaching the bucket when the write succeeds
FlowIngest ==
  \E body \in FlowIngestBodies \cup { BadBody }, err \in Outcomes :
    /\ ingest(body, err)
    /\ bucket' = IF body.ok /\ err.isNil THEN bucket \cup { IngestPoint(body) }
                 ELSE bucket
    /\ UNCHANGED << digests, tasks, pc >>
    /\ UNCHANGED << users, session, lastErr, registered, switched >>

\* /setup, the task being installed when the call succeeds
FlowSetup ==
  \E body \in FlowUserBodies \cup { BadBody }, err \in Outcomes :
    /\ setup(body, err)
    /\ tasks' = IF body.ok /\ err.isNil
                THEN tasks \cup { [name |-> TaskName(body.user_id),
                                   flux |-> TaskQuery(body.user_id),
                                   every |-> "5m"] }
                ELSE tasks
    /\ UNCHANGED << digests, bucket, pc >>
    /\ UNCHANGED << users, session, lastErr, registered, switched >>

\* InfluxDB runs an installed task
FlowTask ==
  \E t \in tasks :
    LET data == TaskData(bucket, Unquote(t.flux.user_id))
    IN  /\ data # {}
        /\ bucket' = bucket \cup { TaskPoint(data, Unquote(t.flux.user_id)) }
        /\ UNCHANGED << digests, tasks, pc, req, resp, calls >>
        /\ UNCHANGED << users, session, lastErr, registered, switched >>

\* /query, the result being what the Flux query yields on the bucket
FlowQuery ==
  \E body \in FlowUserBodies \cup { BadBody }, err \in Outcomes :
    \E rows \in QueryRows(bucket, body.user_id) :
      /\ query(body, err, [records |-> rows, err |-> NoError])
      /\ UNCHANGED << digests, bucket, tasks, pc >>
      /\ UNCHANGED << users, session, lastErr, registered, switched >>

NextFlow ==
  \/ FlowIngest
  \/ FlowSetup
  \/ FlowTask
  \/ FlowQuery

SpecFlow == InitSamples /\ [][NextFlow]_vars

\* ------------------------------------------------------------------------
\* the Echo-based variants of the IoT application (part_004, part_005)
\* ------------------------------------------------------------------------
\* the row inserted by createDefaultLoginDB into a new database
EchoDefaultRow ==
  [DefaultRow EXCEPT
     !.email = "mickey@mouse.com",
     !.readToken = "fVYoLl13o0ET6rhOEfpZoKcoOWofA9GE-Dv5P_EWI41fguTOoLuVD5HeGVEfgRVeF9xnYxh-sLcZEXGBkEFuWQ==",
     !.writeToken = "xOsoCvepHZzTLdr4WtWyoKNZ8KB-fzJ_4fvQpHIWS8GpBH7GqPP6dyock2cz1oVt5zar--N0AQ6frYBOYfevZg=="]

\* a form value that closes the quote of email='%s'
Injection == "' OR '1'='1"

EchoEmails == { "mickey@mouse.com", "ann@example.com", Injection }

\* logins.db as the variants can find it: created by createDefaultLoginDB, or
\* already there (the file is only created when missing) with one more row
EchoTables ==
  { { EchoDefaultRow } } \cup
  { { EchoDefaultRow,
      [id |-> 2, email |-> "ann@example.com", password |-> PasswordHash(p),
       name |-> "ann", readToken |-> r, writeToken |-> "w1"] } :
      p \in Passwords, r \in ReadTokens }

EchoPrograms == { "part_004", "part_005" }

\* the rows of fmt.Sprintf(`SELECT * FROM user WHERE email='%s'`, user)
EchoSelect(user) ==
  IF user = Injection THEN users ELSE { r \in users : r.email = user }

\* the assignments of a successful login
EchoSetUser(row) ==
  activeUser' = [valid |-> TRUE, name |-> row.name, email |-> row.email,
                 readToken |-> row.readToken, writeToken |-> row.writeToken]

\* tryLoginCredentials of part_004: the row that the query yields first is
\* made the active user; lastErr' is the result, "fatal" after log.Fatal
tryLoginCredentials004(user, password, fault) ==
  IF fault # "none" THEN lastErr' = "fatal" /\ UNCHANGED activeUser
  ELSE IF EchoSelect(user) = {} THEN lastErr' = "false" /\ UNCHANGED activeUser
  ELSE \E row \in EchoSelect(user) : lastErr' = "true" /\ EchoSetUser(row)

\* tryLoginCredentials of part_005
tryLoginCredentials005(user, plainPassword, fault) ==
  IF fault # "none" THEN lastErr' = "fatal" /\ UNCHANGED activeUser
  ELSE IF EchoSelect(user) = {} THEN lastErr' = "false" /\ UNCHANGED activeUser
  ELSE \E row \in EchoSelect(user) :
         LET hash == Sum256(plainPassword)
             decoded == DecodeString(TrimPrefix(row.password, sha256Prefix))
         IN  IF ~decoded.ok \/ hash # decoded.bytes
             THEN lastErr' = "false" /\ UNCHANGED activeUser
             ELSE lastErr' = "true" /\ EchoSetUser(row)

\* e.GET("/login")
EchoLoginGet ==
  /\ ~pc.exited
  /\ req' = Request("/login", "GET", NoForm)
  /\ resp' = Finish(renderTemplate(WriteHeader(NewResponse, 200), "login.html", ""))
  /\ lastErr' = ""
  /\ UNCHANGED << digests, bucket, tasks, pc, calls >>
  /\ UNCHANGED << users, session, registered, switched >>

\* e.POST("/login"); log.Fatal ends the program before a response is written
EchoLoginPost ==
  \E email \in EchoEmails, password \in Passwords, fault \in { "none", "query", "scan" } :
    /\ ~pc.exited
    /\ req' = Request("/login", "POST",
                      [email |-> email, password |-> password, fault |-> fault])
    /\ IF pc.program = "part_004"
       THEN tryLoginCredentials004(email, password, fault)
       ELSE tryLoginCredentials005(email, password, fault)
    /\ resp' = IF lastErr' = "true"
               THEN Finish(WriteHeader([NewResponse EXCEPT !.location = "profile"], 303))
               ELSE IF lastErr' = "false"
               THEN Finish(Write(WriteHeader(NewResponse, 403), << "text", "Invalid login" >>))
               ELSE NewResponse
    /\ pc' = [pc EXCEPT !.exited = (lastErr' = "fatal")]
    /\ UNCHANGED << digests, bucket, tasks, calls >>
    /\ UNCHANGED << users, readClient, writeClient, registered, switched >>

\* e.GET("/profile")
EchoProfile ==
  /\ ~pc.exited
  /\ req' = Request("/profile", "GET", NoForm)
  /\ resp' = IF ~activeUser.valid
             THEN Finish(WriteHeader([NewResponse EXCEPT !.location = "login"], 303))
             ELSE Finish(renderTemplate(WriteHeader(NewResponse, 200), "profile.html",
                                        activeUser.name))
  /\ lastErr' = ""
  /\ UNCHANGED << digests, bucket, tasks, pc, calls >>
  /\ UNCHANGED << users, session, registered, switched >>

\* main of either variant, on a logins.db of EchoTables
InitEcho ==
  /\ digests = Sha256Table
  /\ users \in EchoTables
  /\ activeUser = ZeroUser
  /\ readClient = NilClient
  /\ writeClient = NilClient
  /\ req = Request("", "", NoForm)
  /\ resp = NewResponse
  /\ lastErr = ""
  /\ calls = << >>
  /\ registered = {}
  /\ switched = FALSE
  /\ bucket = {}
  /\ tasks = {}
  /\ pc \in { [program |-> p, exited |-> FALSE] : p \in EchoPrograms }

NextEcho ==
  \/ EchoLoginGet
  \/ EchoLoginPost
  \/ EchoProfile

SpecEcho == InitEcho /\ [][NextEcho]_vars

\* ------------------------------------------------------------------------
\* cmd/write_data: the write snippet (first main of the file)
\* ------------------------------------------------------------------------
\* latest reading of time.Now() that is explored
MaxTime == 3

\* the point of one iteration of the loop
SnippetPoint(value) ==
  NewPoint("measurement1", { << "tagname1", "tagvalue1" >> }, { << "field1", value >> })

\* variant of AfterWrite: a failed write is logged and the loop goes on
AfterWrite_continue(value, now, err) ==
  [value |-> value + 1, now |-> now, at |-> "loop"]

\* after WritePoint returned: log.Fatal on an error, else value++
AfterWrite(value, now, err) ==
  IF err.isNil THEN [value |-> value + 1, now |-> now, at |-> "loop"]
  ELSE [value |-> value, now |-> now, at |-> "fatal"]

\* one iteration of the for loop; calls records each WritePoint and its result
WriteIteration ==
  \E now \in pc.now..MaxTime, err \in Outcomes :
    /\ pc.at = "loop"
    /\ pc.value < 5
    /\ calls' = Append(calls, [api |-> "WritePoint", point |-> SnippetPoint(pc.value),
                               time |-> now, err |-> err])
    /\ pc' = AfterWrite(pc.value, now, err)
    /\ UNCHANGED << digests, bucket, tasks, req, resp, lastErr >>
    /\ UNCHANGED << users, session, registered, switched >>

\* the loop condition fails and main returns
WriteReturn ==
  /\ pc.at = "loop"
  /\ ~(pc.value < 5)
  /\ pc' = [pc EXCEPT !.at = "returned"]
  /\ UNCHANGED << digests, bucket, tasks, req, resp, lastErr, calls >>
  /\ UNCHANGED << users, session, registered, switched >>

\* main up to the for statement
InitWrite ==
  /\ digests = << >>
  /\ users = {}
  /\ activeUser = ZeroUser
  /\ readClient = NilClient
  /\ writeClient = NilClient
  /\ req = [route |-> "", body |-> BadBody]
  /\ resp = NewResponse
  /\ lastErr = ""
  /\ calls = << >>
  /\ registered = {}
  /\ switched = FALSE
  /\ bucket = {}
  /\ tasks = {}
  /\ pc = [value |-> 0, now |-> 1, at |-> "loop"]

NextWrite ==
  \/ WriteIteration
  \/ WriteReturn

\* main is one goroutine and every WritePoint returns: each step is taken
SpecWrite == InitWrite /\ [][NextWrite]_vars /\ WF_vars(NextWrite)

\* ------------------------------------------------------------------------
\* cmd/iot_app: logins served concurrently (net/http runs each request in its
\* own goroutine; activeUser, readClient and writeClient are package variables
\* written without a lock)
\* ------------------------------------------------------------------------
Goroutines == { 1, 2 }

\* the user table after ann has signed up
ConcUsers ==
  { DefaultRow,
    [id |-> 2, email |-> "ann@example.com", password |-> PasswordHash(<< "p", "w" >>),
     name |-> "ann", readToken |-> "r1", writeToken |-> "w1"] }

\* newUser as built from the scanned row
NewUserOf(row) ==
  [valid |-> TRUE, name |-> row.name, email |-> row.email,
   readToken |-> row.readToken, writeToken |-> row.writeToken]

\* a goroutine between requests
Idle == [at |-> "idle", row |-> DefaultRow]

\* loginHandler, case "POST", up to the assignments of tryLoginCredentials:
\* a failed login is answered at once, a successful one goes on to
\* activeUser = newUser
ConcLoginPost(g) ==
  \E email \in Emails, password \in Passwords :
    /\ pc[g].at = "idle"
    /\ LET rows == { r \in users : r.email = email }
       IN  IF rows = {}
           THEN /\ lastErr' = "failed to find any matching user account emails"
                /\ pc' = pc
           ELSE \E row \in rows :
                  LET e == CheckRow(row, password, "none")
                  IN  /\ lastErr' = e
                      /\ pc' = IF e = "nil"
                               THEN [pc EXCEPT ![g] = [at |-> "activeUser", row |-> row]]
                               ELSE pc
    /\ req' = Request("/login", "POST",
                      [email |-> email, password |-> password, fault |-> "none"])
    /\ resp' = IF lastErr' = "nil" THEN NewResponse
               ELSE Finish(HttpError(NewResponse, "Invalid login", 403))
    /\ UNCHANGED << digests, bucket, tasks, calls >>
    /\ UNCHANGED << users, session, registered, switched >>

\* activeUser = newUser
ConcSetActiveUser(g) ==
  /\ pc[g].at = "activeUser"
  /\ activeUser' = NewUserOf(pc[g].row)
  /\ pc' = [pc EXCEPT ![g].at = "readClient"]
  /\ UNCHANGED << digests, bucket, tasks, calls, req, resp, lastErr >>
  /\ UNCHANGED << users, readClient, writeClient, registered, switched >>

\* activeUser = newUser in two goroutines at the same time: the struct is
\* copied field by field, each field ends with the value of either copy
ConcSetActiveUserRace(g, h) ==
  /\ g # h
  /\ pc[g].at = "activeUser"
  /\ pc[h].at = "activeUser"
  /\ \E name \in { pc[g].row.name, pc[h].row.name },
        email \in { pc[g].row.email, pc[h].row.email },
        readToken \in { pc[g].row.readToken, pc[h].row.readToken },
        writeToken \in { pc[g].row.writeToken, pc[h].row.writeToken } :
       activeUser' = [valid |-> TRUE, name |-> name, email |-> email,
                      readToken |-> readToken, writeToken |-> writeToken]
  /\ pc' = [pc EXCEPT ![g].at = "readClient", ![h].at = "readClient"]
  /\ UNCHANGED << digests, bucket, tasks, calls, req, resp, lastErr >>
  /\ UNCHANGED << users, readClient, writeClient, registered, switched >>

\* readClient = influxdb2.NewClient(hostUrl, readToken)
ConcSetReadClient(g) ==
  /\ pc[g].at = "readClient"
  /\ readClient' = NewClient(hostUrl, pc[g].row.readToken)
  /\ pc' = [pc EXCEPT ![g].at = "writeClient"]
  /\ UNCHANGED << digests, bucket, tasks, calls, req, resp, lastErr >>
  /\ UNCHANGED << users, activeUser, writeClient, registered, switched >>

\* writeClient = influxdb2.NewClient(hostUrl, writeToken)
ConcSetWriteClient(g) ==
  /\ pc[g].at = "writeClient"
  /\ writeClient' = NewClient(hostUrl, pc[g].row.writeToken)
  /\ pc' = [pc EXCEPT ![g].at = "return"]
  /\ UNCHANGED << digests, bucket, tasks, calls, req, resp, lastErr >>
  /\ UNCHANGED << users, activeUser, readClient, registered, switched >>

\* return nil; loginHandler redirects to profile
ConcReturn(g) ==
  /\ pc[g].at = "return"
  /\ req' = Request("/login", "POST",
                    [email |-> pc[g].row.email, password |-> << >>, fault |-> "none"])
  /\ lastErr' = "nil"
  /\ resp' = Finish(Redirect(NewResponse, "POST", "profile", 303))
  /\ pc' = [pc EXCEPT ![g] = Idle]
  /\ UNCHANGED << digests, bucket, tasks, calls >>
  /\ UNCHANGED << users, session, registered, switched >>

\* main has started the server on a logins.db that holds ConcUsers
InitConc ==
  /\ digests = Sha256Table
  /\ users = ConcUsers
  /\ activeUser = ZeroUser
  /\ readClient = NilClient
  /\ writeClient = NilClient
  /\ req = Request("", "", NoForm)
  /\ resp = NewResponse
  /\ lastErr = ""
  /\ calls = << >>
  /\ registered = {}
  /\ switched = FALSE
  /\ bucket = {}
  /\ tasks = {}
  /\ pc = [g \in Goroutines |-> Idle]

NextConc ==
  \E g \in Goroutines :
    \/ ConcLoginPost(g)
    \/ ConcSetActiveUser(g)
    \/ \E h \in Goroutines : ConcSetActiveUserRace(g, h)
    \/ ConcSetReadClient(g)
    \/ ConcSetWriteClient(g)
    \/ ConcReturn(g)

SpecConc == InitConc /\ [][NextConc]_vars

\* ------------------------------------------------------------------------
\* properties of cmd/iot_app (checked under Spec)
\* ------------------------------------------------------------------------
LoginPosted == req.route = "/login" /\ req.method = "POST"

\* the stored hash of the row, hex-decoded after stripping "sha256$", is the
\* SHA-256 digest of the password
StoredHashIs(row, plainPassword) ==
  LET stored == DecodeString(TrimPrefix(row.password, sha256Prefix))
  IN  stored.ok /\ stored.bytes = Sum256(plainPassword)

\* the session state that belongs to a row of the user table
SessionOf(row) ==
  << [valid |-> TRUE, name |-> row.name, email |-> row.email,
      readToken |-> row.readToken, writeToken |-> row.writeToken],
     NewClient(hostUrl, row.readToken),
     NewClient(hostUrl, row.writeToken) >>

\* C1: tryLoginCredentials(db, email, plainPassword) returns nil if and only if
\* the user table holds a row with that email whose stored hash equals
\* SHA-256(plainPassword); with no such row, a different hash, an undecodable
\* hash or a failed query or scan it returns an error.
C1_LoginIffHashMatches ==
  LoginPosted =>
    /\ lastErr # ""
    /\ (lastErr = "nil") <=>
         /\ req.fault = "none"
         /\ \E row \in users :
              row.email = req.email /\ StoredHashIs(row, req.password)

\* a login of a registered user with the registered password returned nil
C1_Witness ==
  /\ LoginPosted
  /\ req.email = "ann@example.com"
  /\ lastErr = "nil"

\* C2: on a new logins.db, SHA-256("pass") matches the stored hash of the default
\* account: the login of mickey@example.com with password "pass" succeeds
\* whenever the database calls themselves do not fail.
C2_DefaultAccountLogin ==
  ( /\ LoginPosted
    /\ req.email = "mickey@example.com"
    /\ req.password = << "p", "a", "s", "s" >>
    /\ req.fault = "none" )
  => /\ lastErr = "nil"
     /\ activeUser.email = "mickey@example.com"

\* the default account was logged in with "pass" and was redirected to profile
C2_Witness ==
  /\ LoginPosted
  /\ req.email = "mickey@example.com"
  /\ req.password = << "p", "a", "s", "s" >>
  /\ req.fault = "none"
  /\ resp.status = 303
  /\ activeUser.name = "mickey"

\* C3: after registerUser(email, name, password, readToken, writeToken) returned
\* nil, tryLoginCredentials(email, password) returns nil and sets activeUser to
\* {valid: true, name, email, readToken, writeToken} as registered (whenever the
\* database calls themselves do not fail), and a login with the same email and a
\* password of a different hash returns an error.
C3_RegisterLoginRoundTrip ==
  LoginPosted =>
    \A u \in registered :
      u.email = req.email =>
        /\ (req.password = u.password /\ req.fault = "none") =>
             /\ lastErr = "nil"
             /\ activeUser = [valid |-> TRUE, name |-> u.name, email |-> u.email,
                              readToken |-> u.readToken, writeToken |-> u.writeToken]
        /\ Sum256(req.password) # Sum256(u.password) =>
             lastErr \notin { "nil", "" }

\* a registered user logged in with the registered password
C3_Witness ==
  /\ LoginPosted
  /\ req.fault = "none"
  /\ lastErr = "nil"
  /\ \E u \in registered :
       /\ u.email = req.email
       /\ u.password = req.password
       /\ activeUser.readToken = u.readToken

C5_LoginPostResponse ==
  [][ (req'.route = "/login" /\ req'.method = "POST") =>
        IF lastErr' # "nil"
        THEN /\ resp'.status = 403
             /\ resp'.body = << << "text", "Invalid login" >> >>
             /\ UNCHANGED session
        ELSE /\ resp'.status = 303
             /\ resp'.location = "profile" ]_vars

\* a login failed while a user was logged in, who is still logged in
C5_Witness ==
  /\ LoginPosted
  /\ lastErr = "incorrect password"
  /\ resp.status = 403
  /\ activeUser.valid
  /\ readClient.set

\* C6: while no user is logged in, a request to /profile is answered with only
\* a 303 redirect to "login"; the profile template is not rendered.
C6_ProfileRedirectOnly ==
  (req.route = "/profile" /\ ~activeUser.valid) =>
    /\ resp.status = 303
    /\ resp.location = "login"
    /\ \A i \in DOMAIN resp.body : resp.body[i][1] # "template"

\* C7: every /graph_query_data and /graph_write_data request is served with a
\* non-nil client built from the tokens of a user who has logged in; none calls
\* queryData or writeData with an uninitialised client.
C7_ClientsFromLogin ==
  req.route \in { "/graph_query_data", "/graph_write_data" } =>
    /\ ~resp.panicked
    /\ \A i \in DOMAIN calls :
         /\ calls[i].client.set
         /\ activeUser.valid
         /\ calls[i].client.token \in { activeUser.readToken, activeUser.writeToken }

\* the records of the first table of a result: those before the first change
\* of table after the first record
FirstTable(records) ==
  LET later == { i \in 2..Len(records) : records[i].changed }
  IN  IF later = {} THEN records
      ELSE SubSeq(records, 1, (CHOOSE i \in later : \A j \in later : i <= j) - 1)

\* the text of the _value column of a record
ValueOf(record) ==
  LET i == CHOOSE i \in DOMAIN record.pairs : record.pairs[i][1] = "_value"
  IN  record.pairs[i][2]

\* C16: on a successful query /graph_query_data encodes one series whose y
\* values are the _value of every record of the first result table, in
\* iterator order, with x values 0,1,...,n-1; no record of a later table is
\* included.
C16_GraphFirstTable ==
  ( /\ req.route = "/graph_query_data"
    /\ Len(calls) = 1 /\ calls[1].api = "QueryWithParams"
    /\ resp.status = 200 ) =>
    LET first == FirstTable(calls[1].records)
    IN  /\ Len(resp.body) = 1
        /\ resp.body[1][1] = "json"
        /\ resp.body[1][2] = [i \in 1..Len(first) |-> i - 1]
        /\ Len(resp.body[1][3]) = Len(first)
        /\ \A i \in 1..Len(first) :
             /\ ValueOf(first[i]) \in DOMAIN FloatOf
             /\ resp.body[1][3][i] = FloatOf[ValueOf(first[i])]

\* C17: emails are unique in the user table; a POST /signup with an email that
\* already has a row fails, is answered with 400 "Failed to register user."
\* and leaves the table unchanged; a successful registration adds exactly one
\* row, is answered with a 303 redirect to "login" and logs nobody in.
C17_SignupUniqueEmail ==
  [][ (req'.route = "/signup" /\ req'.method = "POST") =>
        /\ (\E r \in users : r.email = req'.email) =>
             /\ lastErr' # "nil"
             /\ resp'.status = 400
             /\ resp'.body = << << "text", "Failed to register user." >> >>
             /\ users' = users
        /\ lastErr' = "nil" =>
             /\ users \subseteq users'
             /\ Cardinality(users') = Cardinality(users) + 1
             /\ \E r \in users' \ users : r.email = req'.email
             /\ resp'.status = 303
             /\ resp'.location = "login"
             /\ session' = session
        /\ \A r1, r2 \in users' : r1.email = r2.email => r1 = r2 ]_vars

\* a registered email was posted to /signup again and refused
C17_Witness ==
  /\ req.route = "/signup" /\ req.method = "POST" /\ req.fault = "none"
  /\ resp.status = 400
  /\ \E r \in users : r.email = req.email /\ r.id # DefaultRow.id
  /\ \A r \in users : r.id # DefaultRow.id => r.email = req.email

\* ------------------------------------------------------------------------
\* properties of the boilerplate application and sample-app
\* (checked under SpecSamples)
\* ------------------------------------------------------------------------
\* the status that passes a library error through
StatusFor(err) == IF err.isHttp THEN err.StatusCode ELSE 500

C9_QueryErrorsReported ==
  (req.route = "/query" /\ Len(calls) = 1) =>
    /\ ~calls[1].err.isNil => resp.status = StatusFor(calls[1].err)
    /\ ~calls[1].iterErr.isNil => resp.status = StatusFor(calls[1].iterErr)
    /\ resp.status = 200 => (calls[1].err.isNil /\ calls[1].iterErr.isNil)

Starts(recs) == { i \in 1..Len(recs) : recs[i].changed }

\* the last position of the run of records that starts at position i
RunEnd(recs, i) ==
  CHOOSE j \in i..Len(recs) :
    /\ \A k \in (i + 1)..j : ~recs[k].changed
    /\ j = Len(recs) \/ recs[j + 1].changed

\* the strings of the records at positions i..j
RecordStrings(recs, i, j) == ToSeq([k \in 1..(j - i + 1) |-> recs[i + k - 1].record])

\* C11: /query, after QueryWithParams returned nil, for an iterator whose first
\* record reports TableChanged: the "tables" of the response hold one entry per
\* maximal run of records between table changes, in iterator order, each entry
\* holding exactly the records of its run in order; no records, no tables.
C11_QueryGrouping ==
  ( /\ req.route = "/query"
    /\ Len(calls) = 1
    /\ calls[1].err.isNil ) =>
    LET recs == calls[1].records
    IN  /\ ~resp.panicked
        /\ resp.status = 200
        /\ Len(resp.body) = 1
        /\ resp.body[1][1] = "json"
        /\ LET tables == resp.body[1][2]
           IN  /\ Len(tables) = Cardinality(Starts(recs))
               /\ \A i \in Starts(recs) :
                    tables[Cardinality({ s \in Starts(recs) : s <= i })]
                      = RecordStrings(recs, i, RunEnd(recs, i))

\* a result of two records in two tables was answered with two tables
C11_Witness ==
  /\ req.route = "/query"
  /\ Len(calls) = 1
  /\ calls[1].err.isNil
  /\ Len(calls[1].records) = 2
  /\ calls[1].records[2].changed
  /\ calls[1].records[1].record # calls[1].records[2].record
  /\ Len(resp.body[1][2]) = 2

\* C12: /setup: every request whose body decodes makes exactly one
\* CreateTaskWithEvery call, with the name "<user_id>_task", the interval "5m",
\* the organization ID looked up at startup and a script that reads bucketName
\* filtered to that user_id and writes to bucketName; it makes no other call.
C12_SetupCreatesTask ==
  (req.route = "/setup" /\ req.body.ok) =>
    /\ Len(calls) = 1
    /\ calls[1].api = "CreateTaskWithEvery"
    /\ calls[1].name = << req.body.user_id, "_task" >>
    /\ calls[1].every = "5m"
    /\ calls[1].orgID = organizationID
    /\ calls[1].flux.from = << "\"", bucketName, "\"" >>
    /\ calls[1].flux.user_id = << "\"", req.body.user_id, "\"" >>
    /\ calls[1].flux.to = << "\"", bucketName, "\"" >>

\* the task of user2 was created
C12_Witness ==
  /\ req.route = "/setup"
  /\ req.body.ok
  /\ req.body.user_id = "user2"
  /\ Len(calls) = 1
  /\ calls[1].err.isNil
  /\ resp.status = 200

C19_BadBodyRejected ==
  (req.route \in { "/ingest", "/query", "/setup" } /\ ~req.body.ok) =>
    /\ resp.status = 400
    /\ ~resp.panicked
    /\ resp.body = << >>
    /\ calls = << >>

\* /setup was requested with a body that does not decode
C19_Witness ==
  /\ req.route = "/setup"
  /\ ~req.body.ok
  /\ resp.status = 400

\* ------------------------------------------------------------------------
\* properties of the Echo-based variants (checked under SpecEcho)
\* ------------------------------------------------------------------------
\* C15: Echo-based variants: tryLoginCredentials(user, password) returns true
\* and sets activeUser only if the hash of the supplied password matches the
\* stored hash of the row found; an existing email with a wrong password is
\* rejected.
C15_EchoLoginChecksHash ==
  LoginPosted =>
    /\ lastErr = "true" =>
         \E row \in users :
           /\ StoredHashIs(row, req.password)
           /\ activeUser = SessionOf(row)[1]
    /\ ( \E row \in users :
           row.email = req.email /\ ~StoredHashIs(row, req.password) )
         => lastErr # "true"

\* ------------------------------------------------------------------------
\* properties of the write snippet (checked under SpecWrite)
\* ------------------------------------------------------------------------
\* the writes attempted so far are of field1 = 0,1,2,... in this order, at
\* most five, and each but the last returned nil
WritesInOrder ==
  /\ Len(calls) <= 5
  /\ \A k \in 1..Len(calls) :
       /\ calls[k].api = "WritePoint"
       /\ calls[k].point = SnippetPoint(k - 1)
       /\ k < Len(calls) => calls[k].err.isNil

\* C18: the snippet attempts writes of field1 = 0,1,2,3,4 strictly in that
\* order, starts write k+1 only after write k returned nil, exits fatally at
\* the first failed write without attempting a later one, and otherwise
\* terminates after exactly five writes.
C18_FiveWritesInOrder ==
  /\ [](WritesInOrder
        /\ (pc.at = "fatal" <=> (calls # << >> /\ ~calls[Len(calls)].err.isNil))
        /\ (pc.at = "returned" =>
              (Len(calls) = 5 /\ \A k \in 1..5 : calls[k].err.isNil)))
  /\ <>(pc.at \in { "fatal", "returned" })

\* the third write failed and the program exited
C18_Witness ==
  /\ pc.at = "fatal"
  /\ Len(calls) = 3
  /\ calls[3].point.fields = { << "field1", 2 >> }

\* ------------------------------------------------------------------------
\* properties of concurrently served logins (checked under SpecConc)
\* ------------------------------------------------------------------------
\* C20: after any interleaving of concurrently handled successful logins of
\* different users, once all have returned, activeUser, readClient and
\* writeClient belong to one and the same user: no state at rest pairs one
\* user's activeUser with another user's client tokens.
C20_SessionOfOneUser ==
  ((\A g \in Goroutines : pc[g].at = "idle") /\ activeUser.valid) =>
    \E row \in users : session = SessionOf(row)

\* ------------------------------------------------------------------------
\* properties of the boilerplate application with InfluxDB
\* (checked under SpecFlow)
\* ------------------------------------------------------------------------
\* the points of which a /query response returns a record
Returned ==
  IF req.route = "/query" /\ Len(resp.body) = 1
  THEN UNION { { resp.body[1][2][t][k].point : k \in DOMAIN resp.body[1][2][t] } :
                 t \in DOMAIN resp.body[1][2] }
  ELSE {}

\* C13: /query for user U returns only points of measurement "downsampled"
\* with tag user_id = U, and no point that /ingest wrote itself: ingested data
\* reaches a /query response only through the downsampling task.
C13_QueryOnlyThroughTask ==
  \A p \in Returned :
    /\ p.measurement = "downsampled"
    /\ << "user_id", req.body.user_id >> \in p.tags
    /\ p \notin { IngestPoint(body) : body \in FlowIngestBodies }

====
